---- MODULE Spec2Model ----
(***************************************************************************)
(* A model of src/main.rs: the OneToTen iterator beside the range 1..11    *)
(* (one_to_ten), and the sequential transform followed by the rayon        *)
(* parallel transform of a linearised n_row x n_col array                  *)
(* (update_vector_with_iterators).                                         *)
(***************************************************************************)
EXTENDS Integers, Sequences, FiniteSets, TLC

VARIABLES
    n_row,      \* let n_row (main.rs:195)
    n_col,      \* let n_col (main.rs:194)
    array,      \* let mut array: Vec<usize>, a function on 0..len-1 (main.rs:198)
    pc,         \* position of the caller in update_vector_with_iterators
    i,          \* index the sequential iter_mut().enumerate() is at
    nthreads,   \* size of the rayon thread pool
    pending,    \* parallel producers <<lo, hi>> split off and not yet started
    cur,        \* per pool thread: the producer it is folding, [lo, hi, pos]
    writes,     \* history: per index, the writes made by the running call
    seq_out,    \* history: per index, the value the sequential call wrote, as an Option
    par_out,    \* history: per index, the value the parallel call wrote, as an Option
    folded,     \* history: the producers <<lo, hi>> started by the parallel call
    current,    \* OneToTen.current (main.rs:18)
    out,        \* history: the Options returned by OneToTen::next, in order
    range_start,\* Range.start of 1..11 (main.rs:53)
    range_out   \* history: the Options returned by Range::next, in order

gridvars == <<n_row, n_col, array, pc, i, nthreads, pending, cur, writes,
              seq_out, par_out, folded>>
itervars == <<current, out, range_start, range_out>>
vars == <<n_row, n_col, array, pc, i, nthreads, pending, cur, writes,
          seq_out, par_out, folded, current, out, range_start, range_out>>

(***************************************************************************)
(* Bounds of the model and constants of the program.                       *)
(***************************************************************************)
MaxCells == 6
MaxThreads == 2
MaxCalls == 12

NCol == 1000
NRow == 1000
Limit == 10
RangeFirst == 1
RangeEnd == 11

(***************************************************************************)
(* Option<u32>: None is the empty tuple, Some(x) the one-element tuple.    *)
(***************************************************************************)
None == <<>>
Some(x) == <<x>>

(***************************************************************************)
(* OneToTen (main.rs:17-42) and the range 1..11 (main.rs:53).              *)
(***************************************************************************)
OneToTen_new == 0

\* fn next(&mut self): the pair <<returned Option, current afterwards>>.
\* (next_off_by_one: the same with the guard current <= 10.)
next_off_by_one(c) ==
    IF c <= Limit THEN <<Some(c + 1), c + 1>> ELSE <<None, c>>
next(c) ==
    IF c < Limit THEN <<Some(c + 1), c + 1>> ELSE <<None, c>>

\* Range<i32>::next on start..RangeEnd: <<returned Option, start afterwards>>.
range_next(s) ==
    IF s < RangeEnd THEN <<Some(s), s + 1>> ELSE <<None, s>>

CallNext ==
    /\ Len(out) < MaxCalls
    /\ out' = Append(out, next(current)[1])
    /\ current' = next(current)[2]
    /\ UNCHANGED <<range_start, range_out>>
    /\ UNCHANGED gridvars

CallRangeNext ==
    /\ Len(range_out) < MaxCalls
    /\ range_out' = Append(range_out, range_next(range_start)[1])
    /\ range_start' = range_next(range_start)[2]
    /\ UNCHANGED <<current, out>>
    /\ UNCHANGED gridvars

(***************************************************************************)
(* update_vector_with_iterators (main.rs:193-213).                         *)
(***************************************************************************)
\* The closures row and col with the n_col they capture (main.rs:196-197).
rowAt(nc, p) == p \div nc
colAt(nc, p) == p % nc

\* (row_by_n_row: row dividing by n_row instead of n_col.)
row_by_n_row(p) == p \div n_row
row(p) == rowAt(n_col, p)
col(p) == colAt(n_col, p)

\* The closure of the sequential for_each: *v = row(i)*col(i) (main.rs:203).
\* (seq_closure_sum: the closure adding instead of multiplying.)
seq_closure_sum(p) == row(p) + col(p)
seq_closure(p) == row(p) * col(p)

\* The closure of the parallel for_each: *v = row(i)*col(i) (main.rs:210).
\* (par_closure_sum: the closure adding instead of multiplying.)
par_closure_sum(p) == row(p) + col(p)
par_closure(p) == row(p) * col(p)

len(a) == Cardinality(DOMAIN a)

\* (1..=n_row*n_col).collect()
\* (seed_inclusive: one element too many, as from 0..=n_row*n_col.)
seed_inclusive(nr, nc) == [p \in 0 .. (nr * nc) |-> p + 1]
seed(nr, nc) == [p \in 0 .. (nr * nc - 1) |-> p + 1]

Threads == 1 .. nthreads
Idle == [lo |-> 0, hi |-> 0, pos |-> 0]
Unwritten(a) == [p \in DOMAIN a |-> None]
Zeroes(a) == [p \in DOMAIN a |-> 0]

InitIter ==
    /\ current = OneToTen_new
    /\ out = <<>>
    /\ range_start = RangeFirst
    /\ range_out = <<>>

InitGrid(dims) ==
    /\ n_row \in dims
    /\ n_col \in dims
    /\ n_row * n_col <= MaxCells
    /\ array = seed(n_row, n_col)
    /\ pc = "seq"
    /\ i = 0
    /\ nthreads \in 1 .. MaxThreads
    /\ pending = {}
    /\ cur = [w \in 1 .. nthreads |-> Idle]
    /\ writes = Zeroes(array)
    /\ seq_out = Unwritten(array)
    /\ par_out = Unwritten(array)
    /\ folded = {}

\* array.iter_mut().enumerate().for_each(..): one element (main.rs:202-204).
SeqStep ==
    /\ pc = "seq"
    /\ i < len(array)
    /\ array' = [array EXCEPT ![i] = seq_closure(i)]
    /\ seq_out' = [seq_out EXCEPT ![i] = Some(seq_closure(i))]
    /\ writes' = [writes EXCEPT ![i] = @ + 1]
    /\ i' = i + 1
    /\ UNCHANGED <<n_row, n_col, pc, nthreads, pending, cur, par_out, folded>>
    /\ UNCHANGED itervars

\* The sequential for_each has run out of elements and returns (main.rs:204-205).
SeqReturn ==
    /\ pc = "seq"
    /\ i = len(array)
    /\ pc' = "seq_done"
    /\ UNCHANGED <<n_row, n_col, array, i, nthreads, pending, cur, writes,
                   seq_out, par_out, folded>>
    /\ UNCHANGED itervars

\* array.par_iter_mut().enumerate().for_each(..) is called: the whole index
\* range is handed to the pool as one producer and the caller blocks
\* (main.rs:209).
ParFork ==
    /\ pc = "seq_done"
    /\ pc' = "par"
    /\ pending' = {<<0, len(array)>>}
    /\ writes' = Zeroes(array)
    /\ UNCHANGED <<n_row, n_col, array, i, nthreads, cur, seq_out, par_out, folded>>
    /\ UNCHANGED itervars

\* The two producers a producer is split into at mid.
\* (halves_overlap, halves_gap: the halves sharing, or dropping, the cell at mid.)
halves_overlap(c, mid) == {<<c[1], mid + 1>>, <<mid, c[2]>>}
halves_gap(c, mid) == {<<c[1], mid>>, <<mid + 1, c[2]>>}
halves(c, mid) == {<<c[1], mid>>, <<mid, c[2]>>}

\* rayon splits a producer that has not started into two contiguous ones; the
\* split point is left open, so every contiguous partition is covered.
Split(c) ==
    /\ pc = "par"
    /\ c \in pending
    /\ c[2] - c[1] >= 2
    /\ \E mid \in (c[1] + 1) .. (c[2] - 1) :
          pending' = (pending \ {c}) \cup halves(c, mid)
    /\ UNCHANGED <<n_row, n_col, array, pc, i, nthreads, cur, writes, seq_out,
                   par_out, folded>>
    /\ UNCHANGED itervars

\* A pool thread with nothing to do starts (or steals) a producer.
Take(w, c) ==
    /\ pc = "par"
    /\ cur[w] = Idle
    /\ c \in pending
    /\ pending' = pending \ {c}
    /\ cur' = [cur EXCEPT ![w] =
                 IF c[1] < c[2] THEN [lo |-> c[1], hi |-> c[2], pos |-> c[1]]
                 ELSE Idle]
    /\ folded' = folded \cup {c}
    /\ UNCHANGED <<n_row, n_col, array, pc, i, nthreads, writes, seq_out,
                   par_out>>
    /\ UNCHANGED itervars

\* The index enumerate() hands the closure for the element at pos.
\* (index_chunk_relative: an index that restarts at 0 in every producer.)
index_chunk_relative(k, p) == p - k.lo
index(k, p) == p

\* A pool thread runs the closure on the next element of its producer
\* (main.rs:209-211); after the last element it is free again.
Write(w) ==
    LET k == cur[w] IN
    /\ pc = "par"
    /\ k.pos < k.hi
    /\ array' = [array EXCEPT ![k.pos] = par_closure(index(k, k.pos))]
    /\ par_out' = [par_out EXCEPT ![k.pos] = Some(par_closure(index(k, k.pos)))]
    /\ writes' = [writes EXCEPT ![k.pos] = @ + 1]
    /\ cur' = [cur EXCEPT ![w] =
                 IF k.pos + 1 = k.hi THEN Idle ELSE [k EXCEPT !.pos = @ + 1]]
    /\ UNCHANGED <<n_row, n_col, pc, i, nthreads, pending, seq_out, folded>>
    /\ UNCHANGED itervars

\* Whether every producer has been folded to its end.
\* (joined_ignoring_threads: not waiting for the threads still folding.)
joined_ignoring_threads == pending = {}
joined == pending = {} /\ \A w \in Threads : cur[w] = Idle

\* The parallel for_each returns to the caller (main.rs:211-212).
ParJoin ==
    /\ pc = "par"
    /\ joined
    /\ pc' = "done"
    /\ UNCHANGED <<n_row, n_col, array, i, nthreads, pending, cur, writes,
                   seq_out, par_out, folded>>
    /\ UNCHANGED itervars

Init == InitGrid(1 .. MaxCells) /\ InitIter
InitAnyDims == InitGrid(0 .. MaxCells) /\ InitIter

Next ==
    \/ SeqStep
    \/ SeqReturn
    \/ ParFork
    \/ \E c \in pending : Split(c)
    \/ \E w \in Threads : \E c \in pending : Take(w, c)
    \/ \E w \in Threads : Write(w)
    \/ ParJoin

NextIter ==
    \/ CallNext
    \/ CallRangeNext

Spec == Init /\ [][Next]_vars
SpecAnyDims == InitAnyDims /\ [][Next]_vars
SpecIter == Init /\ [][NextIter]_vars

\* The caller's thread and every pool thread is an OS thread that keeps running.
Fairness ==
    /\ WF_vars(SeqStep)
    /\ WF_vars(SeqReturn)
    /\ WF_vars(ParFork)
    /\ WF_vars(ParJoin)
    /\ \A w \in 1 .. MaxThreads :
          WF_vars(w \in Threads /\ (Write(w) \/ \E c \in pending : Take(w, c)))
FairSpec == Init /\ [][Next]_vars /\ Fairness

(***************************************************************************)
(* Properties.                                                             *)
(***************************************************************************)
Cells == DOMAIN array
Indices == 0 .. (n_row * n_col - 1)
Overlap(a, b) == a[1] < b[2] /\ b[1] < a[2]
Min(a, b) == IF a < b THEN a ELSE b

\* C1: the grid the parallel transform leaves equals, cell for cell, the grid
\* the sequential transform left: every value a pool thread has written is
\* the value the sequential call wrote to that cell, and when the parallel
\* call has returned every cell has been written by it and the array is the
\* sequential call's array, for every pool size, partition and interleaving.
OutputEquivalence ==
    /\ \A p \in Cells : par_out[p] # None => par_out[p] = seq_out[p]
    /\ pc = "done" =>
          /\ par_out = seq_out
          /\ \A p \in Cells : Some(array[p]) = seq_out[p]

OutputEquivalenceWitness ==
    /\ pc = "done"
    /\ n_row >= 2
    /\ n_col >= 3
    /\ nthreads >= 2
    /\ Cardinality(folded) >= 3
    /\ \E p \in Cells : array[p] >= 2

\* C2: during one transform call no index is written more than once, the
\* sequential call has written exactly the indices below its position, and
\* when either call has returned every index of [0, n_row*n_col) has been
\* written exactly once.
Coverage ==
    /\ \A p \in Cells : writes[p] <= 1
    /\ pc = "seq" => \A p \in Cells : writes[p] = (IF p < i THEN 1 ELSE 0)
    /\ pc \in {"seq_done", "done"} =>
          /\ Cells = Indices
          /\ \A p \in Indices : writes[p] = 1

CoverageWitness ==
    /\ pc = "done"
    /\ len(array) = MaxCells
    /\ Cardinality(folded) = MaxCells
    /\ \A p \in Cells : writes[p] = 1

\* C3: the producers of the parallel transform, started or not, are pairwise
\* disjoint ranges of indices, a started producer is no longer there to be
\* started, the producers two pool threads are folding are disjoint, a pool
\* thread's next access lies in its own producer, and a cell the call has
\* written lies in exactly one started producer, in no producer still to be
\* started and in no part a pool thread has still to fold: no two pool
\* threads access the same cell.
ExclusiveOwnership ==
    LET chunks == pending \cup folded
        chunk(w) == <<cur[w].lo, cur[w].hi>>
    IN  /\ \A a \in chunks : \A b \in chunks : Overlap(a, b) => a = b
        /\ \A a \in pending : a[1] < a[2] => a \notin folded
        /\ \A w \in Threads :
              cur[w] # Idle =>
                 /\ chunk(w) \in folded
                 /\ cur[w].lo <= cur[w].pos
                 /\ cur[w].pos < cur[w].hi
                 /\ \A v \in Threads \ {w} :
                       cur[v] # Idle => ~Overlap(chunk(w), chunk(v))
        /\ pc \in {"par", "done"} =>
              \A p \in Cells :
                 writes[p] > 0 =>
                    /\ Cardinality({c \in folded : c[1] <= p /\ p < c[2]}) = 1
                    /\ \A c \in pending : ~(c[1] <= p /\ p < c[2])
                    /\ \A w \in Threads :
                          ~(cur[w].pos <= p /\ p < cur[w].hi)

ExclusiveOwnershipWitness ==
    /\ pc = "par"
    /\ pending # {}
    /\ \E w \in Threads : \E v \in Threads :
          /\ w # v
          /\ cur[w] # Idle /\ cur[w].pos > cur[w].lo
          /\ cur[v] # Idle /\ cur[v].pos > cur[v].lo

\* C4: the parallel call has returned only when no producer is left and every
\* pool thread has finished its producer, with every cell written by the
\* call; and, the threads being scheduled fairly, a parallel call that has
\* started does return.
ForkJoinBarrier ==
    /\ [](pc = "done" =>
             /\ pending = {}
             /\ \A w \in Threads : cur[w] = Idle
             /\ \A p \in Cells : par_out[p] # None /\ writes[p] = 1)
    /\ ((pc = "par") ~> (pc = "done"))

ForkJoinBarrierWitness ==
    /\ pc = "done"
    /\ nthreads = MaxThreads
    /\ Cardinality(folded) >= 2
    /\ len(array) >= 4
    /\ \A p \in Cells : par_out[p] # None

\* C5: when a transform has returned, the cell at every index p of
\* [0, n_row*n_col) holds (p / n_col) * (p % n_col), after the sequential call
\* (which started from the seed 1..=n_row*n_col) and after the parallel call
\* (which started from the transformed array); while the sequential call runs
\* the cells below its position hold that value and the others their seed;
\* on the 1000 x 1000 grid the indices 0, 1 and 1000 give 0 and 999999 gives
\* 998001.
TransformResult ==
    /\ pc \in {"seq_done", "done"} =>
          /\ Cells = Indices
          /\ \A p \in Indices : array[p] = (p \div n_col) * (p % n_col)
    /\ pc = "seq" =>
          \A p \in Cells :
             array[p] = (IF p < i THEN (p \div n_col) * (p % n_col) ELSE p + 1)
    /\ rowAt(NCol, 0) * colAt(NCol, 0) = 0
    /\ rowAt(NCol, 1) * colAt(NCol, 1) = 0
    /\ rowAt(NCol, 1000) * colAt(NCol, 1000) = 0
    /\ rowAt(NCol, NRow * NCol - 1) * colAt(NCol, NRow * NCol - 1) = 998001

TransformResultWitness ==
    /\ pc = "seq_done"
    /\ n_row = 2
    /\ n_col = 3
    /\ array[4] = 1
    /\ array[5] = 2
    /\ array # seed(n_row, n_col)

\* C6: for every index p of [0, n_row*n_col), row(p) lies in [0, n_row) and
\* col(p) in [0, n_col), p is row(p)*n_col + col(p), distinct indices have
\* distinct positions and every position of the grid is the position of an
\* index; with n_col = 1000, index 345678 has row 345 and col 678.
IndexMapping ==
    /\ \A p \in Indices :
          /\ 0 <= row(p) /\ row(p) < n_row
          /\ 0 <= col(p) /\ col(p) < n_col
          /\ p = row(p) * n_col + col(p)
    /\ \A p \in Indices : \A q \in Indices :
          (row(p) = row(q) /\ col(p) = col(q)) => p = q
    /\ {<<row(p), col(p)>> : p \in Indices}
          = (0 .. (n_row - 1)) \X (0 .. (n_col - 1))
    /\ rowAt(NCol, 345678) = 345
    /\ colAt(NCol, 345678) = 678

IndexMappingWitness ==
    /\ pc = "seq"
    /\ n_row = 3
    /\ n_col = 2
    /\ i = 6
    /\ array[3] = 1
    /\ array[5] = 2

OneToTenSequence ==
    /\ current \in 0 .. 10
    /\ current = Min(Len(out), 10)
    /\ \A k \in 1 .. Len(out) : out[k] = (IF k <= 10 THEN <<k>> ELSE <<>>)
    /\ \A k \in 1 .. Min(Len(out), Len(range_out)) : out[k] = range_out[k]

OneToTenSequenceWitness ==
    /\ Len(out) = MaxCalls
    /\ Len(range_out) = MaxCalls
    /\ out[10] = <<10>>
    /\ out[11] = <<>>
    /\ out[MaxCalls] = <<>>
    /\ current = 10

\* C10: no step of the parallel transform, which runs on the array the
\* sequential transform has filled, changes a cell, and no step of either
\* call changes the length of the array.
Idempotence ==
    [][/\ pc = "par" => array' = array
       /\ len(array') = len(array)]_vars

IdempotenceWitness ==
    /\ pc = "par"
    /\ n_row >= 2
    /\ n_col >= 2
    /\ \E p \in Cells : par_out[p] # None /\ array[p] >= 1
    /\ \E p \in Cells : par_out[p] = None
====
